---- MODULE Spec2Model ----
(***************************************************************************)
(* Model of src/main.py: a chat bot with a per-user throttle               *)
(* (LAST_ACTION_AT, throttled), a lazily cached media handle               *)
(* (AUDIO_FILE_ID), the set of known users (USERS) and four handlers       *)
(* (on_start, on_help, on_stats, on_keyword) that run as cooperatively     *)
(* scheduled coroutines: a handler runs without interruption from one      *)
(* await to the next, and is suspended while an outbound send is pending.  *)
(***************************************************************************)
EXTENDS Integers, Sequences, FiniteSets, Bags, TLC

\* ---------------------------------------------------------------- bounds
MaxTime == 10           \* the clock time.time() takes the values 0..MaxTime
MaxTasks == 2           \* handlers that may be suspended at the same time

\* ------------------------------------------------------- program constants
THROTTLE_SECONDS == 5

\* ------------------------------------------------------------ value sets
None == -1                          \* Python None in an Optional[int] / time
NoFile == "None"                    \* Python None in AUDIO_FILE_ID
Users == {0, 1}                     \* message.from_user.id
FileIds == {"id1", "id2"}           \* msg.audio.file_id (non-empty) returned by the platform
Time == 0..MaxTime

\* Strings are sequences of one-character strings.
Digits == {"0", "1", "2", "3", "4", "5", "6", "7", "8", "9"}
Spaces == {" "}

\* ADMIN_ID values of the environment: unset, "0", " 1 ", "-1", "a"
AdminEnvs == { <<>>, <<"0">>, <<" ", "1", " ">>, <<"-", "1">>, <<"a">> }

\* message.text of a message without text (Python None)
NoText == <<"None">>

\* message.text values: "096", " 096 ", "0960", "96", "", and no text
Texts == { <<"0", "9", "6">>, <<" ", "0", "9", "6", " ">>,
           <<"0", "9", "6", "0">>, <<"9", "6">>, <<>>, NoText }

\* ------------------------------------------------------- string functions
RECURSIVE lstrip(_)
lstrip(s) == IF s # <<>> /\ Head(s) \in Spaces THEN lstrip(Tail(s)) ELSE s

RECURSIVE rstrip(_)
rstrip(s) == IF s # <<>> /\ s[Len(s)] \in Spaces
             THEN rstrip(SubSeq(s, 1, Len(s) - 1)) ELSE s

strip(s) == rstrip(lstrip(s))

\* str.lower(): the model's alphabet has the letters "a" and "A" only
lower(s) == [i \in 1..Len(s) |-> IF s[i] = "A" THEN "a" ELSE s[i]]

isdigit(s) == s # <<>> /\ \A i \in 1..Len(s) : s[i] \in Digits

DigitVal(c) == CHOOSE n \in 0..9 : <<"0", "1", "2", "3", "4", "5", "6", "7", "8", "9">>[n + 1] = c

RECURSIVE int(_)
int(s) == IF s = <<>> THEN 0
          ELSE 10 * int(SubSeq(s, 1, Len(s) - 1)) + DigitVal(s[Len(s)])

\* Python truthiness of an Optional[int]
Truthy(x) == x # None /\ x # 0

\* ------------------------------------------------------------------ config
\* load_config: admin_id = int(admin) if admin.isdigit() else None
load_config(env) ==
    LET admin == strip(env)
    IN  [admin_id |-> IF isdigit(admin) THEN int(admin) ELSE None]

\* ------------------------------------------------------------------- state
VARIABLES
    cfg,              \* Config, read-only after load
    now,              \* time.time()
    USERS,            \* set[int]
    LAST_ACTION_AT,   \* dict[int, float]
    AUDIO_FILE_ID,    \* Optional[str]
    task,             \* bag of the suspended handlers: kind, user, pc, pending send
    admits,           \* history: per user, the times of the admitted checks
    starters,         \* history: the users that have sent a start command
    uploads,          \* history: the handles returned by successful uploads
    upfail            \* history: an upload send has failed

vars == <<cfg, now, USERS, LAST_ACTION_AT, AUDIO_FILE_ID, task, admits,
          starters, uploads, upfail>>

\* ------------------------------------------------------------- dictionaries
Get(d, k, default) == IF k \in DOMAIN d THEN d[k] ELSE default

Put(d, k, v) == [x \in (DOMAIN d) \cup {k} |-> IF x = k THEN v ELSE d[x]]

\* ---------------------------------------------------------------- throttle
\* throttled(user_id) at time t on the map d: the returned boolean and the map
\* it leaves behind
\* variant: the window is one second short
throttled_short(d, user_id, t) ==
    LET last == Get(d, user_id, 0)
    IN  IF t - last < THROTTLE_SECONDS - 1
        THEN [ret |-> TRUE, LAST_ACTION_AT |-> d]
        ELSE [ret |-> FALSE, LAST_ACTION_AT |-> Put(d, user_id, t)]

\* variant: a rejected attempt restarts the window
throttled_reset(d, user_id, t) ==
    LET last == Get(d, user_id, 0)
    IN  [ret |-> t - last < THROTTLE_SECONDS, LAST_ACTION_AT |-> Put(d, user_id, t)]

throttled(d, user_id, t) ==
    LET last == Get(d, user_id, 0)
    IN  IF t - last < THROTTLE_SECONDS
        THEN [ret |-> TRUE, LAST_ACTION_AT |-> d]
        ELSE [ret |-> FALSE, LAST_ACTION_AT |-> Put(d, user_id, t)]

\* ----------------------------------------------------------------- payloads
Msg(kind, body, n) == [kind |-> kind, body |-> body, n |-> n]

NoMsg == Msg("none", "", 0)

\* the handler awaiting answer_audio: `if AUDIO_FILE_ID:` sends the cached
\* handle, else the file from disk
AudioSendAlwaysUpload(kind, u, file_id) ==
    [kind |-> kind, user |-> u, pc |-> "audio_upload", msg |-> Msg("audio", "FSInputFile", 0)]

AudioSend(kind, u, file_id) ==
    IF file_id # NoFile
    THEN [kind |-> kind, user |-> u, pc |-> "audio_cached", msg |-> Msg("audio", file_id, 0)]
    ELSE [kind |-> kind, user |-> u, pc |-> "audio_upload", msg |-> Msg("audio", "FSInputFile", 0)]

\* the text on_stats answers with
StatsMsg(c, user_id, users) ==
    IF Truthy(c.admin_id) /\ user_id = c.admin_id
    THEN Msg("text", "Users", Cardinality(users))
    ELSE Msg("text", "DENIED", 0)

\* AUDIO_FILE_ID after the awaited upload send: assigned only when it succeeded
AfterUploadAlwaysCaches(ok, fid, cur) == fid

AfterUpload(ok, fid, cur) == IF ok THEN fid ELSE cur

\* -------------------------------------------------------------------- tasks
\* a handler suspended at an await: pc names the await, msg the pending send
Suspended(kind, u, pc, m) == [kind |-> kind, user |-> u, pc |-> pc, msg |-> m]

Running == BagToSet(task)

\* the dispatcher starts a handler for an inbound event
\* variant: an event waits until no handler is suspended
CanDispatch_serial == task = EmptyBag

CanDispatch == BagCardinality(task) < MaxTasks

\* handler h suspends again as h2 / handler h returns or raises
Becomes(h, h2) == (task (-) SetToBag({h})) (+) SetToBag({h2})

Ends(h) == task (-) SetToBag({h})

Last(s) == IF s = <<>> THEN None ELSE s[Len(s)]

\* ------------------------------------------------------------------- Init
Init ==
    /\ cfg \in {load_config(e) : e \in AdminEnvs}
    /\ now = 0
    /\ USERS = {}
    /\ LAST_ACTION_AT = [x \in {} |-> 0]
    /\ AUDIO_FILE_ID = NoFile
    /\ task = EmptyBag
    /\ admits = [u \in Users |-> <<>>]
    /\ starters = {}
    /\ uploads = <<>>
    /\ upfail = FALSE

\* ------------------------------------------------------------------ clock
\* time.time() is read as a clock that never steps back; it advances between
\* any two steps of the handlers
Tick ==
    /\ now < MaxTime
    /\ now' = now + 1
    /\ UNCHANGED <<cfg, USERS, LAST_ACTION_AT, AUDIO_FILE_ID, task, admits,
                   starters, uploads, upfail>>

\* what becomes of a handler when the send it awaits returns (ok) or raises:
\* it goes on ("return"), the exception is caught by the except clause of
\* line 87 ("except"), or the exception leaves the handler ("raise").  Only the
\* audio sends of on_start (lines 81 and 85) are inside a try block.
unwind(kind, pc, ok) ==
    IF ok THEN "return"
    ELSE IF kind = "start" /\ pc \in {"audio_cached", "audio_upload"}
    THEN "except"
    ELSE "raise"

\* --------------------------------------------------------------- on_start
\* variant: the handler is suspended between the read of the last-action time
\* and the comparison and write (pc "chk" holds the value read)
on_start_race(u) ==
    \/ /\ CanDispatch
       /\ USERS' = USERS \cup {u}
       /\ starters' = starters \cup {u}
       /\ task' = task (+) SetToBag({Suspended("start", u, "chk",
                                               Msg("last", "", Get(LAST_ACTION_AT, u, 0)))})
       /\ UNCHANGED <<cfg, now, LAST_ACTION_AT, AUDIO_FILE_ID, admits, uploads, upfail>>
    \/ \E h \in Running :
          /\ h.pc = "chk" /\ h.user = u
          /\ IF now - h.msg.n < THROTTLE_SECONDS
             THEN /\ task' = Ends(h)
                  /\ UNCHANGED <<LAST_ACTION_AT, admits>>
             ELSE /\ LAST_ACTION_AT' = Put(LAST_ACTION_AT, u, now)
                  /\ admits' = [admits EXCEPT ![u] = Append(@, now)]
                  /\ task' = Becomes(h, Suspended("start", u, "welcome",
                                                  Msg("text", "WELCOME", 0)))
          /\ UNCHANGED <<cfg, now, USERS, starters, AUDIO_FILE_ID, uploads, upfail>>

\* variant: the user is recorded only after the throttle admitted the start
on_start_gate_first(u) ==
    LET r == throttled(LAST_ACTION_AT, u, now)
    IN  /\ CanDispatch
        /\ starters' = starters \cup {u}
        /\ LAST_ACTION_AT' = r.LAST_ACTION_AT
        /\ IF r.ret
           THEN UNCHANGED <<USERS, task, admits>>
           ELSE /\ USERS' = USERS \cup {u}
                /\ admits' = [admits EXCEPT ![u] = Append(@, now)]
                /\ task' = task (+) SetToBag({Suspended("start", u, "welcome",
                                                        Msg("text", "WELCOME", 0))})
        /\ UNCHANGED <<cfg, now, AUDIO_FILE_ID, uploads, upfail>>

\* lines 70-74: record the user, check the throttle, start sending the welcome
on_start(u) ==
    LET r == throttled(LAST_ACTION_AT, u, now)
    IN  /\ CanDispatch
        /\ USERS' = USERS \cup {u}
        /\ starters' = starters \cup {u}
        /\ LAST_ACTION_AT' = r.LAST_ACTION_AT
        /\ IF r.ret
           THEN UNCHANGED <<task, admits>>
           ELSE /\ admits' = [admits EXCEPT ![u] = Append(@, now)]
                /\ task' = task (+) SetToBag({Suspended("start", u, "welcome",
                                                        Msg("text", "WELCOME", 0))})
        /\ UNCHANGED <<cfg, now, AUDIO_FILE_ID, uploads, upfail>>

\* line 74 returns or raises; lines 76-85: choose the audio argument and send it
on_start_welcome(h, ok) ==
    /\ h.kind = "start" /\ h.pc = "welcome"
    /\ IF unwind(h.kind, h.pc, ok) = "return"
       THEN task' = Becomes(h, AudioSend("start", h.user, AUDIO_FILE_ID))
       ELSE task' = Ends(h)
    /\ UNCHANGED <<cfg, now, USERS, LAST_ACTION_AT, AUDIO_FILE_ID, admits,
                   starters, uploads, upfail>>

\* lines 81, 87-88: the send of the cached handle returns or raises
on_start_cached(h, ok) ==
    /\ h.kind = "start" /\ h.pc = "audio_cached"
    /\ IF unwind(h.kind, h.pc, ok) # "except"
       THEN task' = Ends(h)
       ELSE task' = Becomes(h, Suspended("start", h.user, "retry_msg",
                                         Msg("text", "RETRY", 0)))
    /\ UNCHANGED <<cfg, now, USERS, LAST_ACTION_AT, AUDIO_FILE_ID, admits,
                   starters, uploads, upfail>>

\* variant: a failed upload takes back the sender's throttle timestamp
on_start_upload_rollback(h, ok, fid) ==
    /\ h.kind = "start" /\ h.pc = "audio_upload"
    /\ AUDIO_FILE_ID' = AfterUpload(ok, fid, AUDIO_FILE_ID)
    /\ uploads' = IF ok THEN Append(uploads, fid) ELSE uploads
    /\ upfail' = (upfail \/ ~ok)
    /\ IF ok
       THEN /\ task' = Ends(h)
            /\ UNCHANGED LAST_ACTION_AT
       ELSE /\ task' = Becomes(h, Suspended("start", h.user, "retry_msg",
                                            Msg("text", "RETRY", 0)))
            /\ LAST_ACTION_AT' = [x \in DOMAIN LAST_ACTION_AT \ {h.user} |->
                                     LAST_ACTION_AT[x]]
    /\ UNCHANGED <<cfg, now, USERS, admits, starters>>

\* lines 85-88: the upload send returns a message with a file_id, or raises
on_start_upload(h, ok, fid) ==
    /\ h.kind = "start" /\ h.pc = "audio_upload"
    /\ AUDIO_FILE_ID' = AfterUpload(ok, fid, AUDIO_FILE_ID)
    /\ uploads' = IF ok THEN Append(uploads, fid) ELSE uploads
    /\ upfail' = (upfail \/ ~ok)
    /\ IF unwind(h.kind, h.pc, ok) # "except"
       THEN task' = Ends(h)
       ELSE task' = Becomes(h, Suspended("start", h.user, "retry_msg",
                                         Msg("text", "RETRY", 0)))
    /\ UNCHANGED <<cfg, now, USERS, LAST_ACTION_AT, admits, starters>>

\* lines 88-90: the retry message returns or raises; then the admin is told
on_start_retry(h, ok) ==
    /\ h.kind = "start" /\ h.pc = "retry_msg"
    /\ IF unwind(h.kind, h.pc, ok) = "return" /\ Truthy(cfg.admin_id)
       THEN task' = Becomes(h, Suspended("start", h.user, "admin_notify",
                                         Msg("text", "ERROR", 0)))
       ELSE task' = Ends(h)
    /\ UNCHANGED <<cfg, now, USERS, LAST_ACTION_AT, AUDIO_FILE_ID, admits,
                   starters, uploads, upfail>>

\* line 90: bot.send_message to the admin returns or raises
on_start_admin(h, ok) ==
    /\ h.kind = "start" /\ h.pc = "admin_notify"
    /\ unwind(h.kind, h.pc, ok) \in {"return", "raise"}
    /\ task' = Ends(h)
    /\ UNCHANGED <<cfg, now, USERS, LAST_ACTION_AT, AUDIO_FILE_ID, admits,
                   starters, uploads, upfail>>

\* ---------------------------------------------------------------- on_help
on_help_throttled(u) ==
    LET r == throttled(LAST_ACTION_AT, u, now)
    IN  /\ CanDispatch
        /\ LAST_ACTION_AT' = r.LAST_ACTION_AT
        /\ IF r.ret
           THEN task' = task
           ELSE task' = task (+) SetToBag({Suspended("help", u, "help_send",
                                                     Msg("text", "HELP", 0))})
        /\ UNCHANGED <<cfg, now, USERS, AUDIO_FILE_ID, admits, starters, uploads,
                       upfail>>

on_help(u) ==
    /\ CanDispatch
    /\ task' = task (+) SetToBag({Suspended("help", u, "help_send", Msg("text", "HELP", 0))})
    /\ UNCHANGED <<cfg, now, USERS, LAST_ACTION_AT, AUDIO_FILE_ID, admits,
                   starters, uploads, upfail>>

on_help_sent(h, ok) ==
    /\ h.kind = "help" /\ h.pc = "help_send"
    /\ unwind(h.kind, h.pc, ok) \in {"return", "raise"}
    /\ task' = Ends(h)
    /\ UNCHANGED <<cfg, now, USERS, LAST_ACTION_AT, AUDIO_FILE_ID, admits,
                   starters, uploads, upfail>>

\* --------------------------------------------------------------- on_stats
on_stats(u) ==
    /\ CanDispatch
    /\ task' = task (+) SetToBag({Suspended("stats", u, "stats_send",
                                            StatsMsg(cfg, u, USERS))})
    /\ UNCHANGED <<cfg, now, USERS, LAST_ACTION_AT, AUDIO_FILE_ID, admits,
                   starters, uploads, upfail>>

on_stats_sent(h, ok) ==
    /\ h.kind = "stats" /\ h.pc = "stats_send"
    /\ unwind(h.kind, h.pc, ok) \in {"return", "raise"}
    /\ task' = Ends(h)
    /\ UNCHANGED <<cfg, now, USERS, LAST_ACTION_AT, AUDIO_FILE_ID, admits,
                   starters, uploads, upfail>>

\* ------------------------------------------------------------- on_keyword
\* message.text or ""
text_or_empty(text) == IF text = NoText \/ text = <<>> THEN <<>> ELSE text

\* variant: the keyword path keeps no account of the start path's timestamp:
\* it is rejected only inside the window of an earlier keyword
on_keyword_own_window(u, text) ==
    LET r == throttled(LAST_ACTION_AT, u, now)
        own == r.ret /\ u \notin USERS
    IN  /\ CanDispatch
        /\ IF lower(strip(text_or_empty(text))) # <<"0", "9", "6">>
           THEN UNCHANGED <<LAST_ACTION_AT, task, admits>>
           ELSE /\ LAST_ACTION_AT' = Put(LAST_ACTION_AT, u, now)
                /\ IF own
                   THEN UNCHANGED <<task, admits>>
                   ELSE /\ admits' = [admits EXCEPT ![u] = Append(@, now)]
                        /\ task' = task (+) SetToBag({AudioSend("keyword", u,
                                                                  AUDIO_FILE_ID)})
        /\ UNCHANGED <<cfg, now, USERS, AUDIO_FILE_ID, starters, uploads, upfail>>

\* variant: the text is compared without being stripped
on_keyword_unstripped(u, text) ==
    LET r == throttled(LAST_ACTION_AT, u, now)
    IN  /\ CanDispatch
        /\ IF lower(text_or_empty(text)) # <<"0", "9", "6">>
           THEN UNCHANGED <<LAST_ACTION_AT, task, admits>>
           ELSE /\ LAST_ACTION_AT' = r.LAST_ACTION_AT
                /\ IF r.ret
                   THEN UNCHANGED <<task, admits>>
                   ELSE /\ admits' = [admits EXCEPT ![u] = Append(@, now)]
                        /\ task' = task (+) SetToBag({AudioSend("keyword", u,
                                                                  AUDIO_FILE_ID)})
        /\ UNCHANGED <<cfg, now, USERS, AUDIO_FILE_ID, starters, uploads, upfail>>

\* lines 105-116: match the text, check the throttle, start sending the audio
on_keyword(u, text) ==
    LET r == throttled(LAST_ACTION_AT, u, now)
    IN  /\ CanDispatch
        /\ IF lower(strip(text_or_empty(text))) # <<"0", "9", "6">>
           THEN UNCHANGED <<LAST_ACTION_AT, task, admits>>
           ELSE /\ LAST_ACTION_AT' = r.LAST_ACTION_AT
                /\ IF r.ret
                   THEN UNCHANGED <<task, admits>>
                   ELSE /\ admits' = [admits EXCEPT ![u] = Append(@, now)]
                        /\ task' = task (+) SetToBag({AudioSend("keyword", u,
                                                                  AUDIO_FILE_ID)})
        /\ UNCHANGED <<cfg, now, USERS, AUDIO_FILE_ID, starters, uploads, upfail>>

\* line 113: the send of the cached handle returns or raises (nothing catches)
on_keyword_cached(h, ok) ==
    /\ h.kind = "keyword" /\ h.pc = "audio_cached"
    /\ IF unwind(h.kind, h.pc, ok) # "except"
       THEN task' = Ends(h)
       ELSE task' = Becomes(h, Suspended("keyword", h.user, "retry_msg",
                                         Msg("text", "RETRY", 0)))
    /\ UNCHANGED <<cfg, now, USERS, LAST_ACTION_AT, AUDIO_FILE_ID, admits,
                   starters, uploads, upfail>>

\* lines 116-117: the upload send returns a message with a file_id, or raises
on_keyword_upload(h, ok, fid) ==
    /\ h.kind = "keyword" /\ h.pc = "audio_upload"
    /\ AUDIO_FILE_ID' = AfterUpload(ok, fid, AUDIO_FILE_ID)
    /\ uploads' = IF ok THEN Append(uploads, fid) ELSE uploads
    /\ upfail' = (upfail \/ ~ok)
    /\ IF unwind(h.kind, h.pc, ok) # "except"
       THEN task' = Ends(h)
       ELSE task' = Becomes(h, Suspended("keyword", h.user, "retry_msg",
                                         Msg("text", "RETRY", 0)))
    /\ UNCHANGED <<cfg, now, USERS, LAST_ACTION_AT, admits, starters>>

\* ------------------------------------------------------------------- Next
\* the filter F.text of the registration: the message has a non-empty text
F_text(text) == text # NoText /\ text # <<>>

\* a message that is no command goes to on_keyword when the filter passes it,
\* and to no handler otherwise
on_text(u, text) == F_text(text) /\ on_keyword(u, text)

\* an inbound event is dispatched to its handler
Dispatch ==
    \E u \in Users :
        \/ on_start(u)
        \/ on_help(u)
        \/ on_stats(u)
        \/ \E text \in Texts : on_text(u, text)

\* a pending send of a suspended handler returns or raises
Resume ==
    \E ok \in BOOLEAN :
        \/ \E h \in Running : on_start_welcome(h, ok)
        \/ \E h \in Running : on_start_cached(h, ok)
        \/ \E h \in Running, fid \in FileIds : on_start_upload(h, ok, fid)
        \/ \E h \in Running : on_start_retry(h, ok)
        \/ \E h \in Running : on_start_admin(h, ok)
        \/ \E h \in Running : on_help_sent(h, ok)
        \/ \E h \in Running : on_stats_sent(h, ok)
        \/ \E h \in Running : on_keyword_cached(h, ok)
        \/ \E h \in Running, fid \in FileIds : on_keyword_upload(h, ok, fid)

Next == Tick \/ Dispatch \/ Resume

Spec == Init /\ [][Next]_vars

\* handlers run one at a time: an event is dispatched only when none is suspended
NextSeq == Tick \/ (task = EmptyBag /\ Dispatch) \/ Resume

SeqSpec == Init /\ [][NextSeq]_vars

\* the runs in which ADMIN_ID configures a non-zero admin: every handler path,
\* the notification of the admin included, is taken
AdminInit == Init /\ Truthy(cfg.admin_id)

AdminSpec == AdminInit /\ [][Next]_vars

TypeOK ==
    /\ now \in Time
    /\ USERS \subseteq Users
    /\ DOMAIN LAST_ACTION_AT \subseteq Users
    /\ AUDIO_FILE_ID \in FileIds \cup {NoFile}
    /\ BagCardinality(task) <= MaxTasks
    /\ upfail \in BOOLEAN

\* ================================================================== claims
\* the audio sends that are pending
AudioSends == {h \in Running : h.msg.kind = "audio"}

\* in this step the handler h leaves its suspension point (returns or raises)
Leaves(h) == CopiesIn(h, task') < CopiesIn(h, task)

\* in this step a handler suspends as h
Enters(h) == CopiesIn(h, task') > CopiesIn(h, task)

\* the entry of k in the dictionary d: <<value>>, or <<>> when k is absent
Entry(d, k) == IF k \in DOMAIN d THEN <<d[k]>> ELSE <<>>

\* C1: in every reachable state, for a user whose latest admitted check was at
\* time t1, a check made now (t2) is rejected when t2 - t1 < 5 and admitted when
\* t2 - t1 >= 5.
C1_ThrottleWindow ==
    \A u \in Users :
        admits[u] # <<>> =>
            (throttled(LAST_ACTION_AT, u, now).ret <=> now - Last(admits[u]) < 5)

\* a second check of a user was admitted 5 or more seconds after the first, and
\* a check made now falls into the new window
C1_Witness ==
    \E u \in Users :
        /\ Len(admits[u]) = 2
        /\ admits[u][2] - admits[u][1] >= 5
        /\ now - admits[u][2] < 5
        /\ throttled(LAST_ACTION_AT, u, now).ret

\* C2 (as claimed): a user that was never admitted is admitted by a check made
\* now, whatever the time is.
C2_FirstAdmitted ==
    \A u \in Users :
        admits[u] = <<>> => ~throttled(LAST_ACTION_AT, u, now).ret

\* C3: a step changes the throttle entry of a user only when it admits a check
\* of that user in the same step; so a rejected check changes no entry, an
\* admitted check changes the entry of its user alone, and the outcome of a
\* check of any other user is what it was before the step.
C3_ThrottleFrame ==
    [][LAST_ACTION_AT' # LAST_ACTION_AT =>
          \A b \in Users :
              admits'[b] = admits[b] =>
                  /\ Entry(LAST_ACTION_AT', b) = Entry(LAST_ACTION_AT, b)
                  /\ throttled(LAST_ACTION_AT', b, now').ret
                        = throttled(LAST_ACTION_AT, b, now').ret]_vars

\* one user's start was rejected and left no entry, another user's check was
\* admitted and wrote its own entry
C3_Witness ==
    \E u, b \in Users :
        /\ u # b
        /\ admits[u] # <<>> /\ u \in DOMAIN LAST_ACTION_AT
        /\ b \in USERS /\ admits[b] = <<>> /\ b \notin DOMAIN LAST_ACTION_AT

\* C4: under every interleaving of the handlers, any two admitted checks of the
\* same user are at least 5 seconds apart.
C4_NoDoubleAdmit ==
    \A u \in Users :
        \A i, j \in 1..Len(admits[u]) :
            i < j => admits[u][j] - admits[u][i] >= 5

\* a user was admitted a second time while the handler of the first admitted
\* event of the same user was still suspended
C4_Witness ==
    \E u \in Users :
        /\ Len(admits[u]) = 2
        /\ BagCardinality(task) = 2
        /\ \A h \in Running : h.user = u /\ h.kind \in {"start", "keyword"}

\* C5 (as claimed): once AUDIO_FILE_ID is set, no step changes it.
C5_HandleImmutable ==
    [][AUDIO_FILE_ID # NoFile => AUDIO_FILE_ID' = AUDIO_FILE_ID]_vars

\* C6 (as claimed): at most one upload of the audio file succeeds, and every
\* pending send of a handle sends the handle that upload returned.
C6_UploadOnce ==
    /\ Len(uploads) <= 1
    /\ \A h \in AudioSends : h.pc = "audio_cached" => h.msg.body = uploads[1]

\* C7: when handlers run one at a time, at most one upload succeeds, the handle
\* is unset exactly until then and is the handle that upload returned ever
\* after, and each audio send is the upload before it and the cached handle
\* after it.
C7_SequentialCache ==
    /\ Len(uploads) <= 1
    /\ (AUDIO_FILE_ID = NoFile <=> uploads = <<>>)
    /\ uploads # <<>> => AUDIO_FILE_ID = uploads[1]
    /\ \A h \in AudioSends :
          IF uploads = <<>>
          THEN h.pc = "audio_upload" /\ h.msg.body = "FSInputFile"
          ELSE h.pc = "audio_cached" /\ h.msg.body = uploads[1]

\* after the upload, a later trigger is sending the cached handle
C7_Witness ==
    /\ Len(uploads) = 1
    /\ \E h \in AudioSends : h.pc = "audio_cached" /\ h.msg.body = AUDIO_FILE_ID

\* C8: when handlers run one at a time, after an upload send failed and as long
\* as none has succeeded, the handle is unset and every audio trigger uploads
\* the file again.
C8_FailedUploadRetried ==
    (upfail /\ uploads = <<>>) =>
        /\ AUDIO_FILE_ID = NoFile
        /\ \A h \in AudioSends : h.pc = "audio_upload" /\ h.msg.body = "FSInputFile"

\* an upload failed, and a later trigger is uploading again
C8_Witness ==
    /\ upfail /\ uploads = <<>>
    /\ AUDIO_FILE_ID = NoFile
    /\ \E h \in AudioSends : h.pc = "audio_upload"

\* C9: USERS is exactly the set of the users that have sent a start command,
\* admitted or throttled; no other event changes it.
C9_KnownUsers == USERS = starters

\* a throttled start was recorded, and an admitted keyword was not
C9_Witness ==
    \E u, b \in Users :
        /\ u \in USERS /\ admits[u] = <<>>
        /\ b \notin USERS /\ admits[b] # <<>>

\* C10 (as claimed): a stats handler answers the sender that is the configured
\* admin (whatever numeric id that is) with the number of known users, and
\* everybody else with the denial.
C10_Stats ==
    [][\A h \in Running' :
          (h.kind = "stats" /\ h \notin Running) =>
              h.msg = IF cfg.admin_id # None /\ h.user = cfg.admin_id
                      THEN Msg("text", "Users", Cardinality(USERS))
                      ELSE Msg("text", "DENIED", 0)]_vars

\* C11 (as claimed): in the start path a failed audio send is followed by the
\* retry message to the user and, when an admin id is configured, by the
\* diagnostic message to the admin: a start handler that leaves the send of the
\* retry message goes on to the send to the admin, and nothing but the handler
\* changes.
C11_StartFailureReported ==
    [][\A h \in Running :
          (h.kind = "start" /\ h.pc = "retry_msg" /\ Leaves(h)
              /\ cfg.admin_id # None) =>
              /\ Enters(Suspended("start", h.user, "admin_notify",
                                  Msg("text", "ERROR", 0)))
              /\ UNCHANGED <<USERS, LAST_ACTION_AT, AUDIO_FILE_ID>>]_vars

\* C12 (as claimed): in the keyword path a failed audio send is caught in the
\* handler, as in the start path, and the handler goes on to send the retry
\* message: the failure of a pending audio send of a keyword handler would be
\* caught, and a keyword handler whose upload failed sends the retry message.
C12_KeywordFailureReported ==
    [][\A h \in Running :
          (h.kind = "keyword" /\ h.msg.kind = "audio") =>
              /\ unwind(h.kind, h.pc, FALSE) = "except"
              /\ (h.pc = "audio_upload" /\ Leaves(h) /\ uploads' = uploads) =>
                     Enters(Suspended("keyword", h.user, "retry_msg",
                                      Msg("text", "RETRY", 0)))]_vars

\* C13 (as claimed): a failure of the send to the admin is swallowed: if the
\* pending send of the diagnostic message raises, the exception does not leave
\* the handler.
C13_AdminBestEffort ==
    \A h \in Running :
        h.pc = "admin_notify" => unwind(h.kind, h.pc, FALSE) # "raise"

\* C14 (as claimed): no handler invocation ends with an exception leaving the
\* handler: whichever pending send raises, the exception is caught.
C14_NothingEscapes ==
    \A h \in Running : unwind(h.kind, h.pc, FALSE) = "except"

\* C15: help and stats are never throttled and never touch the shared state:
\* whenever an event can be dispatched, a help and a stats event of any user
\* is answered (its send is started) whatever the user's last-action time, and
\* no step in which a help or stats handler starts or ends changes
\* LAST_ACTION_AT, USERS or AUDIO_FILE_ID.
C15_HelpStatsUngated ==
    /\ [](\A u \in Users :
            CanDispatch =>
                /\ ENABLED (on_help(u) /\
                      Enters(Suspended("help", u, "help_send",
                                       Msg("text", "HELP", 0))))
                /\ ENABLED (on_stats(u) /\
                      Enters(Suspended("stats", u, "stats_send",
                                       StatsMsg(cfg, u, USERS)))))
    /\ [][<<LAST_ACTION_AT, USERS, AUDIO_FILE_ID>>'
             # <<LAST_ACTION_AT, USERS, AUDIO_FILE_ID>> =>
             \A h \in Running \cup Running' :
                 h.kind \in {"help", "stats"} => ~Enters(h) /\ ~Leaves(h)]_vars

\* a user inside the throttle window has a help and a stats answer pending
C15_Witness ==
    \E u \in Users :
        /\ admits[u] # <<>>
        /\ throttled(LAST_ACTION_AT, u, now).ret
        /\ \E h \in Running : h.kind = "help" /\ h.user = u
        /\ \E h \in Running : h.kind = "stats" /\ h.user = u

\* the program's state, without the history variables
state == <<cfg, now, USERS, LAST_ACTION_AT, AUDIO_FILE_ID, task>>

\* C16: a plain-text message starts the audio send if and only if its text,
\* stripped and lower-cased, is "096" (of the texts considered: "096" and
\* " 096 ") and the throttle admits its sender; a message with any other text
\* ("0960", "96", "", no text) and a rejected "096" start no send, and a
\* message with any other text changes nothing of the program's state, the
\* sender's throttle timestamp included.
C16_KeywordMatch ==
    \A u \in Users, text \in Texts :
        IF text \in { <<"0", "9", "6">>, <<" ", "0", "9", "6", " ">> }
        THEN /\ (CanDispatch /\ ~throttled(LAST_ACTION_AT, u, now).ret) =>
                   ENABLED (on_text(u, text) /\
                            Enters(AudioSend("keyword", u, AUDIO_FILE_ID)) /\
                            LAST_ACTION_AT' = Put(LAST_ACTION_AT, u, now))
             /\ throttled(LAST_ACTION_AT, u, now).ret =>
                   ~ENABLED (on_text(u, text) /\ state' # state)
        ELSE ~ENABLED (on_text(u, text) /\ state' # state)

\* a user that never sent a start command was admitted with the keyword, and
\* the audio send of the keyword handler is pending
C16_Witness ==
    \E u \in Users :
        /\ u \notin starters
        /\ admits[u] = <<now>>
        /\ \E h \in AudioSends : h.kind = "keyword" /\ h.user = u

\* C17 (as claimed): from the initial state, a start of a user at time 0 is
\* admitted (welcome text, then the audio); after it a start at time 2 is
\* rejected; and at time 6, once the upload has succeeded, a keyword is
\* admitted and sends the cached handle.
C17_EndToEnd ==
    \A u \in Users :
        /\ (now = 0 /\ u \in starters) =>
               /\ admits[u] = <<0>>
               /\ \E h \in Running : h.kind = "start" /\ h.user = u
        /\ (now = 2 /\ admits[u] = <<0>>) =>
               throttled(LAST_ACTION_AT, u, now).ret
        /\ (now = 6 /\ admits[u] = <<0>> /\ uploads # <<>>) =>
               /\ ~throttled(LAST_ACTION_AT, u, now).ret
               /\ AudioSend("keyword", u, AUDIO_FILE_ID).pc = "audio_cached"

\* C18: a suspended handler holds back no other user: in every state in which
\* a handler of a user a is suspended (and the bound on suspended handlers is
\* not reached), a start and a keyword of any other user b that the throttle
\* does not reject are admitted at once and begin their answer, and the
\* throttle check of b is decided by b's own timestamp alone.
C18_NoSerialization ==
    \A h \in Running : \A b \in Users \ {h.user} :
        (BagCardinality(task) < MaxTasks) =>
            IF now - Get(LAST_ACTION_AT, b, 0) < THROTTLE_SECONDS
            THEN throttled(LAST_ACTION_AT, b, now).ret
            ELSE /\ ENABLED (on_start(b) /\ admits'[b] = Append(admits[b], now)
                              /\ Enters(Suspended("start", b, "welcome",
                                                  Msg("text", "WELCOME", 0))))
                 /\ ENABLED (on_text(b, <<"0", "9", "6">>)
                              /\ admits'[b] = Append(admits[b], now)
                              /\ Enters(AudioSend("keyword", b, AUDIO_FILE_ID)))

\* the start handler of a is still suspended in its first send, and b, admitted
\* later, has been answered completely: its upload has succeeded and its
\* handler has ended
C18_Witness ==
    \E a, b \in Users :
        /\ a # b
        /\ Len(admits[a]) = 1 /\ Len(admits[b]) = 1
        /\ admits[a][1] < admits[b][1]
        /\ \E h \in Running : h.kind = "start" /\ h.user = a /\ h.pc = "welcome"
        /\ \A h \in Running : h.user # b
        /\ uploads # <<>> /\ ~upfail

\* in this step the audio send of the handler h fails: a start handler goes on
\* to the retry message, an upload of a keyword handler ends without a handle
AudioFails(h) ==
    /\ h.msg.kind = "audio" /\ Leaves(h)
    /\ IF h.kind = "start"
       THEN Enters(Suspended("start", h.user, "retry_msg", Msg("text", "RETRY", 0)))
       ELSE h.pc = "audio_upload" /\ uploads' = uploads

C20_SharedWindow ==
    [][\A u \in Users :
          (admits[u] # <<>> /\ now - Last(admits[u]) < THROTTLE_SECONDS) =>
              /\ admits'[u] = admits[u]
              /\ Entry(LAST_ACTION_AT', u) = Entry(LAST_ACTION_AT, u)
              /\ BagCardinality(task') > BagCardinality(task) =>
                    \A h \in Running' :
                        (h.user = u /\ h.kind \in {"start", "keyword"}) =>
                            ~Enters(h)
              /\ u \in starters' \ starters => USERS' = USERS \cup {u}]_vars

\* inside the window of an admitted start (its welcome text is pending) of a
\* user, and inside the window of an admitted keyword (its audio is pending) of
\* a user whose start was rejected
C20_Witness ==
    \E a, b \in Users :
        /\ admits[a] # <<>> /\ now - Last(admits[a]) < THROTTLE_SECONDS
        /\ \E h \in Running : h.kind = "start" /\ h.user = a /\ h.pc = "welcome"
        /\ Len(admits[b]) = 1 /\ now - admits[b][1] < THROTTLE_SECONDS
        /\ b \in USERS
        /\ \E h \in AudioSends : h.kind = "keyword" /\ h.user = b
====
